---- MODULE Spec2Model ----
(***************************************************************************)
(* The OAuth2 drivers of adonis-ally (LinkedIn, Threads, TikTok): the      *)
(* redirect options a driver instance keeps, and one getUser /             *)
(* getUserByToken invocation at a time, cut at its awaits.  The HTTP       *)
(* transport (got) and the provider are the environment: every outbound    *)
(* call is answered by a failure or by one of a small set of bodies.       *)
(***************************************************************************)
EXTENDS Naturals, Sequences, FiniteSets, TLC

\* self: the driver instance; lastUrl: what the last getRedirectUrl call
\* handed to getUrl; inv: the getUser / getUserByToken invocation in progress;
\* lastState: the state argument of the last getRedirectUrl call; other: a
\* second getUser invocation, in progress on the same instance at the same
\* time; refresh: the last shouldRefreshToken call, its clock and its answer.
VARIABLES self, lastUrl, inv, lastState, other, refresh

vars == <<self, lastUrl, inv, lastState, other, refresh>>

(***************************************************************************)
(* JavaScript values.  Every scalar is a string; undefined and null are    *)
(* two reserved strings, so that === is string equality and a falsy value  *)
(* is one of undefined, null and the empty string.                         *)
(***************************************************************************)
Undefined == "<undefined>"

Null == "<null>"

Truthy(v) == v \notin {Undefined, Null, ""}

\* a || b
OrElse(a, b) == IF Truthy(a) THEN a ELSE b

Drivers == {"linkedin", "threads", "tiktok"}

\* How many times in a row a caller repeats a getUser call.
MaxAttempts == 2

(***************************************************************************)
(* Inputs of the caller.                                                   *)
(***************************************************************************)
Codes == {Undefined, "", "c1"}

States == {Undefined, "", "s1", "s2"}

OriginalStates == {Undefined, "", "s1"}

ErrorFields == {Undefined, "access_denied"}

ErrorDescriptions == {Undefined, "user cancelled"}

\* A callback either carries a code or the provider's error fields.
QueryParams ==
    { q \in [code : Codes, state : States, error : ErrorFields,
             error_description : ErrorDescriptions] :
        Truthy(q.code) => (q.error = Undefined /\ q.error_description = Undefined) }

HeldTokens == {"held1"}

(***************************************************************************)
(* The configuration a driver is constructed with.                         *)
(***************************************************************************)
ConfigOptions == {[response_type |-> Undefined], [response_type |-> "token"]}

Config(options) ==
    [clientId |-> "client-id", clientSecret |-> "client-secret",
     redirectUri |-> "https://app/callback", scope |-> <<>>,
     options |-> options]

\* _.merge({ response_type: 'code' }, config.options): a defined source
\* value overwrites the default.
MergedOptions(options) ==
    [response_type |-> IF options.response_type = Undefined THEN "code"
                       ELSE options.response_type,
     state |-> Undefined,
     client_key |-> Undefined]

(***************************************************************************)
(* Answers of the environment.  A failed call is got rejecting (network    *)
(* error or non-2xx status).                                               *)
(***************************************************************************)
Failed == [ok |-> FALSE]

\* Body of the code-for-token response.
TokenBodies(d) ==
    { b \in [ok : {TRUE}, access_token : {Undefined, "short1"},
             refresh_token : {Undefined}, expires_in : {Undefined, "3600"},
             hasData : BOOLEAN, open_id : {Undefined, "u1"}] :
        /\ (d # "tiktok") => (~b.hasData /\ b.open_id = Undefined)
        /\ (d = "tiktok") => (b.expires_in = Undefined)
        /\ ~b.hasData => b.open_id = Undefined }

\* Body of the long-lived token response of Threads.
LongLivedBodies ==
    [ok : {TRUE}, access_token : {Undefined, "long1"},
     token_type : {Undefined}, expires_in : {Undefined, "5184000"}]

NoName == [present |-> FALSE, localized |-> <<>>]

Name(variants) == [present |-> TRUE, localized |-> variants]

\* Body of the profile response.
ProfileBodies(d) ==
    IF d = "linkedin" THEN
        { [ok |-> TRUE, id |-> "42", firstName |-> Name(<<"Ann", "Anne">>),
           lastName |-> Name(<<"Lee">>)],
          [ok |-> TRUE, id |-> Undefined, firstName |-> Name(<<>>),
           lastName |-> Name(<<"Lee">>)],
          [ok |-> TRUE, id |-> "42", firstName |-> NoName,
           lastName |-> Name(<<"Lee">>)] }
    ELSE IF d = "threads" THEN
        { [ok |-> TRUE, id |-> "42", username |-> "alice", name |-> "Alice A",
           threads_profile_picture_url |-> "pic"],
          [ok |-> TRUE, id |-> "42", username |-> "alice", name |-> Undefined,
           threads_profile_picture_url |-> Undefined],
          [ok |-> TRUE, id |-> Undefined, username |-> Undefined,
           name |-> Undefined, threads_profile_picture_url |-> Undefined] }
    ELSE
        { [ok |-> TRUE, hasData |-> TRUE, name |-> "alice",
           display_name |-> "Alice A", profile_picture |-> "pic"],
          [ok |-> TRUE, hasData |-> TRUE, name |-> Undefined,
           display_name |-> Undefined, profile_picture |-> Undefined],
          [ok |-> TRUE, hasData |-> FALSE, name |-> Undefined,
           display_name |-> Undefined, profile_picture |-> Undefined] }

Handle(type, primary, address) ==
    [type |-> type, primary |-> primary, hasHandle |-> address # Undefined,
     emailAddress |-> address]

\* Body of the email response of LinkedIn.
EmailBodies ==
    { [ok |-> TRUE, isNull |-> FALSE, hasElements |-> FALSE, elements |-> <<>>],
      [ok |-> TRUE, isNull |-> FALSE, hasElements |-> TRUE, elements |-> <<>>],
      [ok |-> TRUE, isNull |-> FALSE, hasElements |-> TRUE,
       elements |-> <<Handle("PHONE", TRUE, "555"),
                      Handle("EMAIL", FALSE, "old@x"),
                      Handle("EMAIL", TRUE, "ann@x")>>],
      [ok |-> TRUE, isNull |-> FALSE, hasElements |-> TRUE,
       elements |-> <<Handle("EMAIL", TRUE, Undefined)>>] }

\* The null passed as the email argument.
NullEmail == [ok |-> TRUE, isNull |-> TRUE, hasElements |-> FALSE, elements |-> <<>>]

\* No email resource (drivers without one).
NoEmail == [ok |-> FALSE]

NoProfile == [ok |-> FALSE]

(***************************************************************************)
(* Outcomes of an invocation.                                              *)
(***************************************************************************)
NoResult == [kind |-> "none"]

Error(name, message) == [kind |-> "error", name |-> name, message |-> message]

\* CE.OAuthException.tokenExchangeException(message, null, message)
tokenExchangeException(message) == Error("E_OAUTH_TOKEN_EXCHANGE", message)

\* CE.OAuthException.invalidState()
invalidState == Error("E_OAUTH_STATE_MISMATCH", "Oauth state mis-match")

\* got rejects: network failure or non-2xx status.
HTTPError == Error("HTTPError", "request failed")

\* A property read of undefined or null.
TypeError == Error("TypeError", "cannot read property of undefined")

(***************************************************************************)
(* Token objects: what getAccessToken and _exchangeForLongLivedToken       *)
(* return, the literals getUserByToken builds, and a bare token string     *)
(* passed where an object is expected.                                     *)
(***************************************************************************)
TokenObject == [isString |-> FALSE, value |-> Undefined,
                accessToken |-> Undefined, refreshToken |-> Undefined,
                hasResult |-> FALSE, hasData |-> FALSE, open_id |-> Undefined,
                expires_in |-> Undefined, expiresIn |-> Undefined,
                expiresAt |-> Undefined, tokenType |-> Undefined]

\* A string: every property read of it yields undefined.
StringArg(s) == [TokenObject EXCEPT !.isString = TRUE, !.value = s]

\* { accessToken, refreshToken: null } and { accessToken }
TokenLiteral(accessToken, refreshToken) ==
    [TokenObject EXCEPT !.accessToken = accessToken, !.refreshToken = refreshToken]

\* OAuth2Scheme.getAccessToken: { accessToken, refreshToken, result } of a
\* successful exchange; it fails when the call fails or the body has no
\* access token.
getAccessTokenFails(body) == ~body.ok \/ ~Truthy(body.access_token)

getAccessTokenResult(body) ==
    [TokenObject EXCEPT !.accessToken = body.access_token,
                        !.refreshToken = body.refresh_token,
                        !.hasResult = TRUE,
                        !.hasData = body.hasData,
                        !.open_id = body.open_id,
                        !.expires_in = body.expires_in]

\* The request getAccessToken sends.
TokenRequest(code, redirectUri, grantType) ==
    [endpoint |-> "token", code |-> code, redirect_uri |-> redirectUri,
     grant_type |-> grantType]

\* Threads._exchangeForLongLivedToken: the request, then the object built
\* from the body, whatever the body holds.
LongLivedRequest(shortLivedToken) ==
    [endpoint |-> "longLived", token |-> shortLivedToken,
     grant_type |-> "th_exchange_token"]

LongLivedResult(body) ==
    [TokenObject EXCEPT !.accessToken = body.access_token,
                        !.tokenType = body.token_type,
                        !.expiresIn = body.expires_in,
                        !.expiresAt = IF body.expires_in = Undefined
                                      THEN "Invalid Date" ELSE "now+expires_in"]

(***************************************************************************)
(* The checks of getUser.                                                  *)
(***************************************************************************)
\* if (!code)
CodeMissing(queryParams) == ~Truthy(queryParams.code)

\* As StateMismatch, with the comparison dropped.
StateMismatchNeverThrows(state, originalState) == FALSE

\* As StateMismatch, without the guard on the callback's state.
StateMismatchWithoutGuard(state, originalState) == originalState # state

\* if (state && originalState !== state)
StateMismatch(state, originalState) == Truthy(state) /\ originalState # state

parseRedirectError(d, queryParams) ==
    IF d = "linkedin"
    THEN OrElse(queryParams.error_description, "Oauth failed during redirect")
    ELSE OrElse(queryParams.error, "Oauth failed during redirect")

(***************************************************************************)
(* _getUserProfile: the request it sends, or the TypeError raised while    *)
(* the URL is built.  LinkedIn takes the token string, Threads and TikTok  *)
(* the token object.                                                       *)
(***************************************************************************)
ProfileRequestThrows(d, arg) ==
    d = "tiktok" /\ (arg.isString \/ ~arg.hasResult \/ ~arg.hasData)

ProfileRequest(d, arg) ==
    IF d = "linkedin"
    THEN [endpoint |-> "profile", token |-> arg.value, business_id |-> Undefined]
    ELSE IF d = "threads"
    THEN [endpoint |-> "profile", token |-> arg.accessToken,
          business_id |-> Undefined]
    ELSE [endpoint |-> "profile", token |-> arg.accessToken,
          business_id |-> arg.open_id]

\* LinkedIn._getUserEmail
EmailRequest(accessToken) == [endpoint |-> "email", token |-> accessToken]

(***************************************************************************)
(* _buildAllyUser.  fields holds the arguments of setFields in the order   *)
(* they are passed.                                                        *)
(***************************************************************************)
User(fields, accessToken, refreshToken, expires) ==
    [kind |-> "user", fields |-> fields, accessToken |-> accessToken,
     refreshToken |-> refreshToken, refreshTokenExpiry |-> Null,
     expires |-> expires]

\* localized[Object.keys(localized)[0]]
FirstLocalized(name) ==
    IF name.localized = <<>> THEN Undefined ELSE name.localized[1]

\* elements.find(e => e.type === 'EMAIL')
FindEmail(elements) ==
    LET idx == {i \in 1..Len(elements) : elements[i].type = "EMAIL"}
    IN  IF idx = {} THEN Handle(Undefined, FALSE, Undefined)
        ELSE elements[CHOOSE i \in idx : \A j \in idx : i <= j]

\* _.get(accessTokenResponse, 'result.expires_in'); expires ? Number(expires) : null
ExpiresOf(atr) ==
    IF atr.hasResult /\ Truthy(atr.expires_in) THEN atr.expires_in ELSE Null

LinkedInBuildAllyUser(userProfile, email, atr) ==
    IF email.isNull \/ ~email.hasElements THEN TypeError
    ELSE IF ~userProfile.firstName.present \/ ~userProfile.lastName.present
    THEN TypeError
    ELSE LET emailAddress == FindEmail(email.elements)
         IN  User(<<userProfile.id,
                    FirstLocalized(userProfile.firstName),
                    FirstLocalized(userProfile.lastName),
                    IF emailAddress.hasHandle THEN emailAddress.emailAddress
                    ELSE Undefined,
                    Null, Null>>,
                  atr.accessToken, atr.refreshToken, ExpiresOf(atr))

ThreadsBuildAllyUser(userProfile, atr) ==
    [User(<<userProfile.id, userProfile.username, Null, userProfile.name,
            userProfile.threads_profile_picture_url>>,
          atr.accessToken, Null, OrElse(atr.expiresIn, Null))
     EXCEPT !.refreshTokenExpiry = Null] @@
    [tokenInfo |-> [expiresIn |-> atr.expiresIn, expiresAt |-> atr.expiresAt,
                    tokenType |-> OrElse(atr.tokenType, "bearer")]]

TikTokBuildAllyUser(userProfile, atr) ==
    IF atr.isString \/ ~atr.hasResult \/ ~atr.hasData THEN TypeError
    ELSE IF ~userProfile.hasData THEN TypeError
    ELSE User(<<atr.open_id, userProfile.name, Null, userProfile.display_name,
                userProfile.profile_picture>>,
              atr.accessToken, atr.refreshToken, ExpiresOf(atr))

BuildAllyUser(d, userProfile, email, atr) ==
    IF d = "linkedin" THEN LinkedInBuildAllyUser(userProfile, email, atr)
    ELSE IF d = "threads" THEN ThreadsBuildAllyUser(userProfile, atr)
    ELSE TikTokBuildAllyUser(userProfile, atr)

(***************************************************************************)
(* The driver instance and the invocation record.                          *)
(***************************************************************************)
DefaultScope(d) ==
    IF d = "linkedin" THEN <<"r_liteprofile", "r_emailaddress">>
    ELSE IF d = "threads" THEN <<"threads_basic">>
    ELSE <<"user.info.basic", "user.info.username">>

\* constructor (Config)
Construct(d, config) ==
    [driver |-> d,
     _clientId |-> config.clientId,
     _clientSecret |-> config.clientSecret,
     _redirectUri |-> config.redirectUri,
     _redirectUriOptions |-> MergedOptions(config.options),
     scope |-> IF Len(config.scope) > 0 THEN config.scope ELSE DefaultScope(d)]

NoQuery == [code |-> Undefined, state |-> Undefined, error |-> Undefined,
            error_description |-> Undefined]

\* An invocation that has not started.  atr is the result of getAccessToken,
\* tok the token object handed to the profile fetch and to _buildAllyUser,
\* log the outbound requests and their answers in the order they happened.
NewInvocation ==
    [op |-> "none", pc |-> "idle", queryParams |-> NoQuery,
     originalState |-> Undefined, accessToken |-> Undefined,
     atr |-> TokenObject, tok |-> TokenObject, userProfile |-> NoProfile,
     log |-> <<>>, result |-> NoResult, attempt |-> 0,
     prevResult |-> NoResult]

\* return / throw
Finish(i, result) == [i EXCEPT !.pc = "done", !.result = result]

\* await got(...) / await this.getAccessToken(...): the request leaves.
Issue(i, pc, request) ==
    [i EXCEPT !.pc = pc, !.log = Append(@, [ev |-> "req", req |-> request])]

\* The awaited call settles.
Received(i, endpoint, body) ==
    [i EXCEPT !.log = Append(@, [ev |-> "res", endpoint |-> endpoint,
                                 body |-> body])]

(***************************************************************************)
(* getRedirectUrl                                                          *)
(***************************************************************************)
\* As AssignedOptions, with the arguments of Object.assign the other way
\* round: a state the options already hold is kept.
AssignedOptionsKeepsFirstState(s, state) ==
    IF ~Truthy(state) \/ s._redirectUriOptions.state # Undefined
    THEN s._redirectUriOptions
    ELSE IF s.driver = "linkedin"
    THEN [s._redirectUriOptions EXCEPT !.state = state]
    ELSE [s._redirectUriOptions EXCEPT !.state = state,
                                       !.client_key = s._clientId]

\* Object.assign(this._redirectUriOptions, { state } [, { client_key }])
\* writes into this._redirectUriOptions and returns it.
AssignedOptions(s, state) ==
    IF ~Truthy(state) THEN s._redirectUriOptions
    ELSE IF s.driver = "linkedin"
    THEN [s._redirectUriOptions EXCEPT !.state = state]
    ELSE [s._redirectUriOptions EXCEPT !.state = state,
                                       !.client_key = s._clientId]

\* OAuth2Scheme.getUrl(redirectUri, scope, options): the query parameters.
\* The engine fixes response_type; the other options are merged in.
getUrl(s, redirectUri, scope, options) ==
    [client_id |-> s._clientId, redirect_uri |-> redirectUri, scope |-> scope,
     response_type |-> "code", state |-> options.state,
     client_key |-> options.client_key]

NoUrl == [client_id |-> Undefined]

\* shouldRefreshToken has not been called.
NoRefresh == [called |-> FALSE]

GetRedirectUrl ==
    /\ \E state \in States :
         LET options == AssignedOptions(self, state)
         IN  /\ self' = [self EXCEPT !._redirectUriOptions = options]
             /\ lastUrl' = getUrl(self, self._redirectUri, self.scope, options)
             /\ lastState' = state
    /\ UNCHANGED <<inv, other, refresh>>

(***************************************************************************)
(* getUser                                                                 *)
(***************************************************************************)
\* As GetUserStart, with the state checked before the code.
GetUserStartStateFirst(s, i) ==
    IF StateMismatch(i.queryParams.state, i.originalState)
    THEN Finish(i, invalidState)
    ELSE IF CodeMissing(i.queryParams)
    THEN Finish(i, tokenExchangeException(parseRedirectError(s.driver, i.queryParams)))
    ELSE Issue(i, "token",
               TokenRequest(i.queryParams.code, s._redirectUri, "authorization_code"))

\* As GetUserStart, with the redirect URI left out of the token exchange.
GetUserStartWithoutRedirectUri(s, i) ==
    IF CodeMissing(i.queryParams)
    THEN Finish(i, tokenExchangeException(parseRedirectError(s.driver, i.queryParams)))
    ELSE IF StateMismatch(i.queryParams.state, i.originalState)
    THEN Finish(i, invalidState)
    ELSE Issue(i, "token",
               TokenRequest(i.queryParams.code, Undefined, "authorization_code"))

\* As GetUserStart, without the check of the code.
GetUserStartNoCodeCheck(s, i) ==
    Issue(i, "token",
          TokenRequest(i.queryParams.code, s._redirectUri, "authorization_code"))

GetUserStart(s, i) ==
    IF CodeMissing(i.queryParams)
    THEN Finish(i, tokenExchangeException(parseRedirectError(s.driver, i.queryParams)))
    ELSE IF StateMismatch(i.queryParams.state, i.originalState)
    THEN Finish(i, invalidState)
    ELSE Issue(i, "token",
               TokenRequest(i.queryParams.code, s._redirectUri, "authorization_code"))

\* A caller hands the callback's query parameters and the state it stored.
GetUser ==
    /\ inv.pc = "idle"
    /\ \E q \in QueryParams, originalState \in OriginalStates :
         inv' = GetUserStart(self,
                    [NewInvocation EXCEPT !.op = "getUser", !.queryParams = q,
                                          !.originalState = originalState,
                                          !.attempt = 1])
    /\ UNCHANGED <<self, lastUrl, lastState, other, refresh>>

\* The caller calls getUser again with the same parameters.
GetUserAgain ==
    /\ inv.pc = "done"
    /\ inv.op = "getUser"
    /\ inv.attempt < MaxAttempts
    /\ inv' = GetUserStart(self,
                  [NewInvocation EXCEPT !.op = "getUser",
                                        !.queryParams = inv.queryParams,
                                        !.originalState = inv.originalState,
                                        !.attempt = inv.attempt + 1,
                                        !.prevResult = inv.result])
    /\ UNCHANGED <<self, lastUrl, lastState, other, refresh>>

\* As AfterAccessToken, with Threads fetching the profile before the
\* long-lived exchange.
AfterAccessTokenProfileFirst(s, i, body) ==
    LET i1 == Received(i, "token", body)
    IN  IF getAccessTokenFails(body)
        THEN Finish(i1, tokenExchangeException("token exchange failed"))
        ELSE LET atr == getAccessTokenResult(body)
                 i2 == [i1 EXCEPT !.atr = atr, !.tok = atr]
             IN  IF s.driver = "linkedin"
                 THEN Issue(i2, "profile",
                            ProfileRequest(s.driver, StringArg(atr.accessToken)))
                 ELSE IF ProfileRequestThrows(s.driver, atr)
                 THEN Finish(i2, TypeError)
                 ELSE Issue(i2, "profile", ProfileRequest(s.driver, atr))

\* After await this.getAccessToken(...)
AfterAccessToken(s, i, body) ==
    LET i1 == Received(i, "token", body)
    IN  IF getAccessTokenFails(body)
        THEN Finish(i1, tokenExchangeException("token exchange failed"))
        ELSE LET atr == getAccessTokenResult(body)
                 i2 == [i1 EXCEPT !.atr = atr, !.tok = atr]
             IN  IF s.driver = "threads"
                 THEN Issue(i2, "longLived", LongLivedRequest(atr.accessToken))
                 ELSE IF s.driver = "linkedin"
                 THEN Issue(i2, "profile",
                            ProfileRequest(s.driver, StringArg(atr.accessToken)))
                 ELSE IF ProfileRequestThrows(s.driver, atr)
                 THEN Finish(i2, TypeError)
                 ELSE Issue(i2, "profile", ProfileRequest(s.driver, atr))

TokenResponse ==
    /\ inv.pc = "token"
    /\ \E body \in {Failed} \cup TokenBodies(self.driver) :
         inv' = AfterAccessToken(self, inv, body)
    /\ UNCHANGED <<self, lastUrl, lastState, other, refresh>>

\* As AfterLongLivedToken, with the short-lived token response kept for the
\* profile fetch and the user.
AfterLongLivedTokenKeepsShortLived(s, i, body) ==
    LET i1 == Received(i, "longLived", body)
    IN  IF ~body.ok THEN Finish(i1, HTTPError)
        ELSE Issue(i1, "profile", ProfileRequest(s.driver, i.atr))

\* After await this._exchangeForLongLivedToken(...)
AfterLongLivedToken(s, i, body) ==
    LET i1 == Received(i, "longLived", body)
    IN  IF ~body.ok THEN Finish(i1, HTTPError)
        ELSE LET longLivedTokenResponse == LongLivedResult(body)
             IN  Issue([i1 EXCEPT !.tok = longLivedTokenResponse], "profile",
                       ProfileRequest(s.driver, longLivedTokenResponse))

LongLivedResponse ==
    /\ inv.pc = "longLived"
    /\ \E body \in {Failed} \cup LongLivedBodies :
         inv' = AfterLongLivedToken(self, inv, body)
    /\ UNCHANGED <<self, lastUrl, lastState, other, refresh>>

\* As AfterUserProfile, with the token response kept in a field all
\* invocations on the instance share: the user is built with the token the
\* field holds when the profile arrives.
AfterUserProfileSharedToken(s, i, body) ==
    LET i1 == Received(i, "profile", body)
        latest == IF other.atr.hasResult THEN other ELSE i
    IN  IF ~body.ok THEN Finish(i1, HTTPError)
        ELSE IF i.op = "getUser"
        THEN IF s.driver = "linkedin"
             THEN Issue([i1 EXCEPT !.userProfile = body, !.atr = latest.atr],
                        "email", EmailRequest(latest.atr.accessToken))
             ELSE Finish([i1 EXCEPT !.userProfile = body],
                         BuildAllyUser(s.driver, body, NoEmail, latest.tok))
        ELSE Finish([i1 EXCEPT !.userProfile = body],
                    BuildAllyUser(s.driver, body, NullEmail,
                                  TokenLiteral(i.accessToken, Null)))

\* As AfterUserProfile, with a failed profile fetch tried once more.
AfterUserProfileRetriesOnce(s, i, body) ==
    LET i1 == Received(i, "profile", body)
        sent == SelectSeq(i.log, LAMBDA e : e.ev = "req")
    IN  IF ~body.ok
        THEN IF Len(SelectSeq(sent, LAMBDA e : e.req.endpoint = "profile")) < 2
             THEN Issue(i1, "profile", sent[Len(sent)].req)
             ELSE Finish(i1, HTTPError)
        ELSE IF i.op = "getUser"
        THEN IF s.driver = "linkedin"
             THEN Issue([i1 EXCEPT !.userProfile = body], "email",
                        EmailRequest(i.atr.accessToken))
             ELSE Finish([i1 EXCEPT !.userProfile = body],
                         BuildAllyUser(s.driver, body, NoEmail, i.tok))
        ELSE Finish([i1 EXCEPT !.userProfile = body],
                    BuildAllyUser(s.driver, body, NullEmail,
                                  TokenLiteral(i.accessToken, Null)))

\* As AfterUserProfile, with a failed profile fetch caught and replaced by a
\* default profile.
AfterUserProfileSwallowsFailure(s, i, body) ==
    LET i1 == Received(i, "profile", body)
        profile == IF body.ok THEN body
                   ELSE CHOOSE b \in ProfileBodies(s.driver) : TRUE
    IN  IF i.op = "getUser"
        THEN IF s.driver = "linkedin"
             THEN Issue([i1 EXCEPT !.userProfile = profile], "email",
                        EmailRequest(i.atr.accessToken))
             ELSE Finish([i1 EXCEPT !.userProfile = profile],
                         BuildAllyUser(s.driver, profile, NoEmail, i.tok))
        ELSE Finish([i1 EXCEPT !.userProfile = profile],
                    BuildAllyUser(s.driver, profile, NullEmail,
                                  TokenLiteral(i.accessToken, Null)))

\* After await this._getUserProfile(...), in getUser and in getUserByToken
AfterUserProfile(s, i, body) ==
    LET i1 == Received(i, "profile", body)
    IN  IF ~body.ok THEN Finish(i1, HTTPError)
        ELSE IF i.op = "getUser"
        THEN IF s.driver = "linkedin"
             THEN Issue([i1 EXCEPT !.userProfile = body], "email",
                        EmailRequest(i.atr.accessToken))
             ELSE Finish([i1 EXCEPT !.userProfile = body],
                         BuildAllyUser(s.driver, body, NoEmail, i.tok))
        ELSE Finish([i1 EXCEPT !.userProfile = body],
                    BuildAllyUser(s.driver, body, NullEmail,
                                  TokenLiteral(i.accessToken, Null)))

ProfileResponse ==
    /\ inv.pc = "profile"
    /\ \E body \in {Failed} \cup ProfileBodies(self.driver) :
         inv' = AfterUserProfile(self, inv, body)
    /\ UNCHANGED <<self, lastUrl, lastState, other, refresh>>

\* After await this._getUserEmail(...)
AfterUserEmail(s, i, body) ==
    LET i1 == Received(i, "email", body)
    IN  IF ~body.ok THEN Finish(i1, HTTPError)
        ELSE Finish(i1, BuildAllyUser(s.driver, i.userProfile, body, i.atr))

EmailResponse ==
    /\ inv.pc = "email"
    /\ \E body \in {Failed} \cup EmailBodies :
         inv' = AfterUserEmail(self, inv, body)
    /\ UNCHANGED <<self, lastUrl, lastState, other, refresh>>

(***************************************************************************)
(* getUserByToken                                                          *)
(***************************************************************************)
\* As GetUserByTokenStart, with the held token sent through the code
\* exchange first.
GetUserByTokenStartViaExchange(s, i) ==
    Issue(i, "token",
          TokenRequest(i.accessToken, s._redirectUri, "authorization_code"))

GetUserByTokenStart(s, i) ==
    LET arg == IF s.driver = "threads" THEN TokenLiteral(i.accessToken, Undefined)
               ELSE StringArg(i.accessToken)
    IN  IF ProfileRequestThrows(s.driver, arg) THEN Finish(i, TypeError)
        ELSE Issue(i, "profile", ProfileRequest(s.driver, arg))

GetUserByToken ==
    /\ inv.pc = "idle"
    /\ \E accessToken \in HeldTokens :
         inv' = GetUserByTokenStart(self,
                    [NewInvocation EXCEPT !.op = "getUserByToken",
                                          !.accessToken = accessToken,
                                          !.attempt = 1])
    /\ UNCHANGED <<self, lastUrl, lastState, other, refresh>>

\* The promise of the invocation has settled and the caller has its outcome:
\* nothing of the invocation is kept.
Settled ==
    /\ inv.pc = "done"
    /\ inv' = NewInvocation
    /\ UNCHANGED <<self, lastUrl, lastState, other, refresh>>

(***************************************************************************)
(* The specification: one driver instance, constructed from a              *)
(* configuration, and a caller that uses it.                               *)
(***************************************************************************)
Init ==
    /\ \E d \in Drivers, options \in ConfigOptions :
         self = Construct(d, Config(options))
    /\ lastUrl = NoUrl
    /\ lastState = Undefined
    /\ inv = NewInvocation
    /\ other = NewInvocation
    /\ refresh = NoRefresh

Next ==
    \/ GetRedirectUrl
    \/ GetUser
    \/ GetUserAgain
    \/ TokenResponse
    \/ LongLivedResponse
    \/ ProfileResponse
    \/ EmailResponse
    \/ GetUserByToken
    \/ Settled

Spec == Init /\ [][Next]_vars

(***************************************************************************)
(* Two getUser invocations in progress on one driver instance at the same  *)
(* time, for the callbacks of two users.  Each invocation runs the same    *)
(* code between its awaits; the event loop interleaves the two at the      *)
(* awaits in any order, and getRedirectUrl may be called in between.       *)
(***************************************************************************)
ConcQueryParams ==
    { [NoQuery EXCEPT !.code = "c1", !.state = "s1"],
      [NoQuery EXCEPT !.code = "c2", !.state = "s1"],
      [NoQuery EXCEPT !.code = "c2", !.state = "s2"] }

ConcTokenBodies(d) ==
    { [ok |-> TRUE, access_token |-> t, refresh_token |-> Undefined,
       expires_in |-> IF d = "tiktok" THEN Undefined ELSE "3600",
       hasData |-> d = "tiktok",
       open_id |-> IF d = "tiktok" THEN "u1" ELSE Undefined] :
      t \in {"short1", "short2"} }

ConcLongLivedBodies ==
    { [ok |-> TRUE, access_token |-> t, token_type |-> Undefined,
       expires_in |-> "5184000"] : t \in {"long1", "long2"} }

ConcProfileBodies(d) ==
    IF d = "linkedin" THEN
        { [ok |-> TRUE, id |-> "42", firstName |-> Name(<<"Ann">>),
           lastName |-> Name(<<"Lee">>)],
          [ok |-> TRUE, id |-> "43", firstName |-> Name(<<"Bob">>),
           lastName |-> Name(<<"Ray">>)] }
    ELSE IF d = "threads" THEN
        { [ok |-> TRUE, id |-> "42", username |-> "alice", name |-> "Alice A",
           threads_profile_picture_url |-> "pic"],
          [ok |-> TRUE, id |-> "43", username |-> "bob", name |-> "Bob B",
           threads_profile_picture_url |-> "pic2"] }
    ELSE
        { [ok |-> TRUE, hasData |-> TRUE, name |-> "alice",
           display_name |-> "Alice A", profile_picture |-> "pic"],
          [ok |-> TRUE, hasData |-> TRUE, name |-> "bob",
           display_name |-> "Bob B", profile_picture |-> "pic2"] }

ConcEmailBodies ==
    { [ok |-> TRUE, isNull |-> FALSE, hasElements |-> TRUE,
       elements |-> <<Handle("EMAIL", TRUE, a)>>] : a \in {"ann@x", "bob@x"} }

\* getUser(queryParams, originalState) up to its first await.
ConcGetUser(i, next) ==
    /\ i.pc = "idle"
    /\ \E q \in ConcQueryParams :
         next = GetUserStart(self,
                    [NewInvocation EXCEPT !.op = "getUser", !.queryParams = q,
                                          !.originalState = "s1",
                                          !.attempt = 1])

ConcTokenResponse(i, next) ==
    /\ i.pc = "token"
    /\ \E body \in {Failed} \cup ConcTokenBodies(self.driver) :
         next = AfterAccessToken(self, i, body)

ConcLongLivedResponse(i, next) ==
    /\ i.pc = "longLived"
    /\ \E body \in {Failed} \cup ConcLongLivedBodies :
         next = AfterLongLivedToken(self, i, body)

ConcProfileResponse(i, next) ==
    /\ i.pc = "profile"
    /\ \E body \in {Failed} \cup ConcProfileBodies(self.driver) :
         next = AfterUserProfile(self, i, body)

ConcEmailResponse(i, next) ==
    /\ i.pc = "email"
    /\ \E body \in {Failed} \cup ConcEmailBodies :
         next = AfterUserEmail(self, i, body)

FirstGetUser ==
    ConcGetUser(inv, inv') /\ UNCHANGED <<self, lastUrl, lastState, other, refresh>>

FirstTokenResponse ==
    ConcTokenResponse(inv, inv') /\ UNCHANGED <<self, lastUrl, lastState, other, refresh>>

FirstLongLivedResponse ==
    ConcLongLivedResponse(inv, inv') /\ UNCHANGED <<self, lastUrl, lastState, other, refresh>>

FirstProfileResponse ==
    ConcProfileResponse(inv, inv') /\ UNCHANGED <<self, lastUrl, lastState, other, refresh>>

FirstEmailResponse ==
    ConcEmailResponse(inv, inv') /\ UNCHANGED <<self, lastUrl, lastState, other, refresh>>

SecondGetUser ==
    ConcGetUser(other, other') /\ UNCHANGED <<self, lastUrl, lastState, inv, refresh>>

SecondTokenResponse ==
    ConcTokenResponse(other, other') /\ UNCHANGED <<self, lastUrl, lastState, inv, refresh>>

SecondLongLivedResponse ==
    ConcLongLivedResponse(other, other') /\ UNCHANGED <<self, lastUrl, lastState, inv, refresh>>

SecondProfileResponse ==
    ConcProfileResponse(other, other') /\ UNCHANGED <<self, lastUrl, lastState, inv, refresh>>

SecondEmailResponse ==
    ConcEmailResponse(other, other') /\ UNCHANGED <<self, lastUrl, lastState, inv, refresh>>

NextConc ==
    \/ GetRedirectUrl
    \/ FirstGetUser
    \/ FirstTokenResponse
    \/ FirstLongLivedResponse
    \/ FirstProfileResponse
    \/ FirstEmailResponse
    \/ SecondGetUser
    \/ SecondTokenResponse
    \/ SecondLongLivedResponse
    \/ SecondProfileResponse
    \/ SecondEmailResponse

SpecConc == Init /\ [][NextConc]_vars

(***************************************************************************)
(* Threads.shouldRefreshToken(expiresAt).  Dates are their time values,    *)
(* in milliseconds: <= and > on two Dates compare the time values.         *)
(***************************************************************************)
\* How far the clock runs, and how far past the clock and past the clock
\* plus one day the expiry times go.
MaxNow == 8

MaxSlack == 2

\* 24 * 60 * 60 * 1000
DayMs == 24 * 60 * 60 * 1000

\* As shouldRefreshToken, with the end of the window excluded.
shouldRefreshTokenBeforeOneDay(expiresAt, now) ==
    LET oneDayFromNow == now + DayMs
    IN  expiresAt < oneDayFromNow /\ expiresAt > now

\* now is what new Date() yields inside the call.
shouldRefreshToken(expiresAt, now) ==
    LET oneDayFromNow == now + DayMs
    IN  expiresAt <= oneDayFromNow /\ expiresAt > now

\* Expiry times around the clock and around the clock plus one day.
ExpiryTimes ==
    (0..(MaxNow + MaxSlack)) \cup {DayMs + t : t \in 0..(MaxNow + MaxSlack)}

ShouldRefreshToken ==
    /\ self.driver = "threads"
    /\ \E now \in 0..MaxNow, expiresAt \in ExpiryTimes :
         refresh' = [called |-> TRUE, now |-> now, expiresAt |-> expiresAt,
                     result |-> shouldRefreshToken(expiresAt, now)]
    /\ UNCHANGED <<self, lastUrl, lastState, inv, other>>

InitRefresh ==
    /\ \E options \in ConfigOptions :
         self = Construct("threads", Config(options))
    /\ lastUrl = NoUrl
    /\ lastState = Undefined
    /\ inv = NewInvocation
    /\ other = NewInvocation
    /\ refresh = NoRefresh

NextRefresh == ShouldRefreshToken

SpecRefresh == InitRefresh /\ [][NextRefresh]_vars

(***************************************************************************)
(* Observations used by the properties.                                    *)
(***************************************************************************)
\* The steps in which a caller's getUser call runs up to its first await.
GetUserCalled ==
    /\ inv.pc \in {"idle", "done"}
    /\ inv' # inv
    /\ inv'.op = "getUser"

Requests(i) == SelectSeq(i.log, LAMBDA e : e.ev = "req")

Responses(i) == SelectSeq(i.log, LAMBDA e : e.ev = "res")

Endpoints(i) == [k \in 1..Len(Requests(i)) |-> Requests(i)[k].req.endpoint]

\* A step of the invocation failed: the call was rejected (network error or
\* non-success status), or a token exchange, the code-for-token one or the
\* long-lived one, answered with a body that has no access token.
Failure(e) ==
    \/ ~e.body.ok
    \/ e.endpoint \in {"token", "longLived"} /\ ~Truthy(e.body.access_token)

IsPrefix(a, b) == Len(a) <= Len(b) /\ \A k \in 1..Len(a) : a[k] = b[k]

(***************************************************************************)
(* C1: for every driver, getUser called with callback parameters whose     *)
(* code is absent or empty fails with a token-exchange error before any    *)
(* outbound HTTP call is issued; called again with the same parameters it  *)
(* yields the same error, and it leaves the driver's state unchanged.      *)
(***************************************************************************)
C1_MissingCodeFailsBeforeAnyCall ==
    [][ (GetUserCalled /\ ~Truthy(inv'.queryParams.code))
        => /\ inv'.pc = "done"
           /\ inv'.result.kind = "error"
           /\ inv'.result.name = "E_OAUTH_TOKEN_EXCHANGE"
           /\ inv'.log = <<>>
           /\ self' = self
           /\ (inv'.attempt > 1 => inv'.result = inv'.prevResult) ]_vars

\* The second of two identical calls without a code has failed, on a driver
\* whose redirect options an earlier getRedirectUrl call has changed.
C1_Witness ==
    /\ inv.op = "getUser"
    /\ inv.pc = "done"
    /\ ~Truthy(inv.queryParams.code)
    /\ inv.attempt = 2
    /\ inv.result = inv.prevResult
    /\ inv.result.kind = "error"
    /\ inv.result.name = "E_OAUTH_TOKEN_EXCHANGE"
    /\ inv.log = <<>>
    /\ self._redirectUriOptions.state # Undefined

(***************************************************************************)
(* C2: whenever getUser is called with a code present and a non-empty      *)
(* originalState, and the callback's state is not strictly equal to        *)
(* originalState (a callback that carries no state included), getUser      *)
(* fails with InvalidStateError and no token exchange is issued.           *)
(***************************************************************************)
C2_MismatchAlwaysRejected ==
    (/\ inv.op = "getUser"
     /\ Truthy(inv.queryParams.code)
     /\ Truthy(inv.originalState)
     /\ inv.queryParams.state # inv.originalState)
    => /\ inv.pc = "done"
       /\ inv.result = invalidState
       /\ inv.log = <<>>

(***************************************************************************)
(* C3: getUser called with a callback that carries a non-empty state       *)
(* disagreeing with the caller-supplied original state fails with an       *)
(* invalid-state error even when the code is present, and before any       *)
(* outbound call.                                                          *)
(***************************************************************************)
C3_NonEmptyStateMismatchRejected ==
    (/\ inv.op = "getUser"
     /\ Truthy(inv.queryParams.code)
     /\ Truthy(inv.queryParams.state)
     /\ inv.queryParams.state # inv.originalState)
    => /\ inv.pc = "done"
       /\ inv.result = invalidState
       /\ inv.log = <<>>

\* A callback with a code and state s2 was checked against the stored s1.
C3_Witness ==
    /\ inv.op = "getUser"
    /\ inv.queryParams.code = "c1"
    /\ inv.queryParams.state = "s2"
    /\ inv.originalState = "s1"
    /\ inv.pc = "done"
    /\ inv.result = invalidState

Chain(d) ==
    IF d = "linkedin" THEN <<"token", "profile", "email">>
    ELSE IF d = "threads" THEN <<"token", "longLived", "profile">>
    ELSE <<"token", "profile">>

C5_UserOnlyIfEveryStepSucceeded ==
    inv.op = "getUser" =>
      /\ inv.result.kind = "user" =>
           /\ inv.pc = "done"
           /\ Truthy(inv.queryParams.code)
           /\ ~(Truthy(inv.queryParams.state)
                /\ inv.queryParams.state # inv.originalState)
           /\ Endpoints(inv) = Chain(self.driver)
           /\ Len(Responses(inv)) = Len(Requests(inv))
           /\ \A k \in 1..Len(Responses(inv)) : ~Failure(Responses(inv)[k])
      /\ (\E k \in 1..Len(Responses(inv)) : Failure(Responses(inv)[k]))
           => (inv.pc = "done" /\ inv.result.kind = "error")
      /\ inv.pc = "done" => inv.result.kind \in {"user", "error"}
      /\ inv.pc # "done" => inv.result = NoResult

(***************************************************************************)
(* C6: getUserByToken never issues a code-exchange or secondary-exchange   *)
(* call and never performs a state check: the only outbound calls it       *)
(* issues are profile fetches, and it never ends with an invalid-state     *)
(* error.                                                                  *)
(***************************************************************************)
C6_ByTokenOnlyFetchesProfile ==
    inv.op = "getUserByToken" =>
      /\ \A k \in 1..Len(Requests(inv)) :
           Requests(inv)[k].req.endpoint = "profile"
      /\ inv.result # invalidState

\* getUserByToken has fetched the profile with the held token and returned.
C6_Witness ==
    /\ inv.op = "getUserByToken"
    /\ inv.pc = "done"
    /\ Len(Requests(inv)) = 1
    /\ Requests(inv)[1].req.endpoint = "profile"
    /\ Requests(inv)[1].req.token = inv.accessToken
    /\ inv.result.kind = "user"

(***************************************************************************)
(* C7: for every driver, given a held access token and a successful        *)
(* profile response, getUserByToken completes and returns a user whose     *)
(* identity fields (id, nickname, name, avatar) equal those getUser        *)
(* produces for that profile response.                                     *)
(***************************************************************************)
\* The users getUser maps the profile to, over the token and email responses
\* it can have received with it.
GetUserMappings(d, userProfile) ==
    { u \in { BuildAllyUser(d, userProfile, email, getAccessTokenResult(body)) :
                email \in EmailBodies,
                body \in {b \in TokenBodies(d) : ~getAccessTokenFails(b)} } :
        u.kind = "user" }

\* setFields(id, name, email, nickname, avatar): all but the email.
IdentityFields(u) == <<u.fields[1], u.fields[2], u.fields[4], u.fields[5]>>

C7_ByTokenMapsLikeGetUser ==
    (/\ inv.op = "getUserByToken"
     /\ inv.pc = "done"
     /\ \A k \in 1..Len(Responses(inv)) : Responses(inv)[k].body.ok)
    => /\ inv.userProfile.ok
       /\ GetUserMappings(self.driver, inv.userProfile) # {}
            => /\ inv.result.kind = "user"
               /\ \E u \in GetUserMappings(self.driver, inv.userProfile) :
                    IdentityFields(u) = IdentityFields(inv.result)

(***************************************************************************)
(* C8: every user returned by getUser or getUserByToken has its            *)
(* accessToken set to a token value, for every combination of provider     *)
(* responses.                                                              *)
(***************************************************************************)
C8_AccessTokenAlwaysPresent ==
    inv.result.kind = "user" => Truthy(inv.result.accessToken)

(***************************************************************************)
(* C9: in Threads, getUser performs the long-lived exchange after the code *)
(* exchange, with the short-lived token, and its result replaces the       *)
(* short-lived token downstream: the profile fetch carries the access      *)
(* token of the long-lived response and the returned user's accessToken is *)
(* that token, never the short-lived one.                                  *)
(***************************************************************************)
C9_LongLivedTokenUsedDownstream ==
    (self.driver = "threads" /\ inv.op = "getUser") =>
      /\ \A k \in 1..Len(inv.log) :
           (inv.log[k].ev = "req" /\ inv.log[k].req.endpoint = "longLived")
           => /\ k = 3
              /\ inv.log[1].req.endpoint = "token"
              /\ inv.log[2].ev = "res"
              /\ inv.log[k].req.token = inv.log[2].body.access_token
      /\ \A k \in 1..Len(inv.log) :
           (inv.log[k].ev = "req" /\ inv.log[k].req.endpoint = "profile")
           => /\ k = 5
              /\ inv.log[3].req.endpoint = "longLived"
              /\ inv.log[4].ev = "res"
              /\ inv.log[k].req.token = inv.log[4].body.access_token
              /\ inv.log[k].req.token # inv.log[2].body.access_token
      /\ inv.result.kind = "user"
           => /\ Len(inv.log) = 6
              /\ inv.result.accessToken = inv.log[4].body.access_token
              /\ inv.result.accessToken # inv.log[2].body.access_token

\* Threads getUser has returned a user that holds the long-lived token, after
\* a profile fetch made with it.
C9_Witness ==
    /\ self.driver = "threads"
    /\ inv.op = "getUser"
    /\ inv.pc = "done"
    /\ inv.result.kind = "user"
    /\ inv.atr.accessToken = "short1"
    /\ inv.result.accessToken = "long1"
    /\ inv.log[5].req.token = "long1"

(***************************************************************************)
(* C10: a getUser invocation issues its outbound calls one after another,  *)
(* in the order token exchange, long-lived exchange (Threads), profile     *)
(* fetch, email fetch (LinkedIn); each call starts only after the previous *)
(* one was answered, and at most three calls are issued per invocation.    *)
(***************************************************************************)
C10_CallsSequentialInOrder ==
    inv.op = "getUser" =>
      /\ \A k \in 1..Len(inv.log) :
           IF k % 2 = 1 THEN inv.log[k].ev = "req"
           ELSE /\ inv.log[k].ev = "res"
                /\ inv.log[k].endpoint = inv.log[k - 1].req.endpoint
      /\ IsPrefix(Endpoints(inv), Chain(self.driver))
      /\ Len(Requests(inv)) <= 3
      /\ (inv.pc \notin {"idle", "done"}) <=> (Len(inv.log) % 2 = 1)

\* LinkedIn getUser has returned after its three calls, each answered before
\* the next was issued.
C10_Witness ==
    /\ inv.op = "getUser"
    /\ inv.pc = "done"
    /\ inv.result.kind = "user"
    /\ Endpoints(inv) = <<"token", "profile", "email">>
    /\ Len(inv.log) = 6

(***************************************************************************)
(* C11: no outbound call is ever retried: within one getUser invocation    *)
(* each endpoint is called at most once, and once an outbound call has     *)
(* failed (the transport rejected it) no further call is issued and the    *)
(* invocation ends in failure.                                             *)
(***************************************************************************)
C11_NoRetryAfterFailure ==
    inv.op = "getUser" =>
      /\ \A j, k \in 1..Len(Endpoints(inv)) :
           Endpoints(inv)[j] = Endpoints(inv)[k] => j = k
      /\ \A k \in 1..Len(inv.log) :
           (inv.log[k].ev = "res" /\ ~inv.log[k].body.ok)
           => /\ k = Len(inv.log)
              /\ inv.pc = "done"
              /\ inv.result.kind = "error"

\* The long-lived exchange of a Threads getUser was rejected after a
\* successful code exchange: the call has ended there with an error.
C11_Witness ==
    /\ inv.op = "getUser"
    /\ inv.pc = "done"
    /\ inv.result.kind = "error"
    /\ Len(inv.log) = 4
    /\ inv.log[2].body.ok
    /\ inv.log[3].req.endpoint = "longLived"
    /\ ~inv.log[4].body.ok

(***************************************************************************)
(* C12: for every non-empty state S, after any sequence of earlier         *)
(* getRedirectUrl calls on the driver, getRedirectUrl(S) hands getUrl      *)
(* redirect options whose state is S unmodified, and S round-trips:        *)
(* getUser called with the callback state of that redirect and             *)
(* originalState S passes the state check.                                 *)
(***************************************************************************)
C12_StateRoundTrips ==
    (lastUrl # NoUrl /\ Truthy(lastState)) =>
      /\ self._redirectUriOptions.state = lastState
      /\ lastUrl.state = lastState
      /\ (/\ inv.op = "getUser"
          /\ Truthy(inv.queryParams.code)
          /\ inv.queryParams.state = lastUrl.state
          /\ inv.originalState = lastState)
         => /\ inv.result # invalidState
            /\ Len(inv.log) > 0
            /\ inv.log[1].req.endpoint = "token"

\* getRedirectUrl('s1') was called on a driver, and the callback that echoes
\* its state has passed the state check against 's1'.
C12_Witness ==
    /\ lastUrl # NoUrl
    /\ lastState = "s1"
    /\ lastUrl.state = "s1"
    /\ inv.op = "getUser"
    /\ inv.queryParams.state = "s1"
    /\ inv.originalState = "s1"
    /\ inv.pc = "token"

(***************************************************************************)
(* C13: every redirect URL a Threads or TikTok driver produces carries the *)
(* client_key parameter (the client identifier), whether or not a state    *)
(* was supplied to getRedirectUrl.                                         *)
(***************************************************************************)
C13_ClientKeyAlwaysSent ==
    (self.driver \in {"threads", "tiktok"} /\ lastUrl # NoUrl)
    => lastUrl.client_key = self._clientId

(***************************************************************************)
(* C14: the redirect options getRedirectUrl hands to getUrl always carry   *)
(* response_type = 'code', whatever the configured options say.            *)
(***************************************************************************)
C14_ResponseTypeAlwaysCode ==
    lastUrl # NoUrl => self._redirectUriOptions.response_type = "code"

(***************************************************************************)
(* C15: no operation changes the driver's stored redirect URI, redirect    *)
(* options, scope or credentials.                                          *)
(***************************************************************************)
C15_DriverNeverChanges == [][self' = self]_vars

(***************************************************************************)
(* C16: two getUser invocations in progress on the same driver instance    *)
(* do not interfere.  Under every interleaving of their outbound calls,    *)
(* each invocation is what its own callback parameters and the answers to  *)
(* its own calls make it on a driver as constructed: the requests it sent, *)
(* where it stands and its result (user or error) are those of a run of    *)
(* getUser alone with these inputs.                                        *)
(***************************************************************************)
\* The driver as the constructor left it.
AsConstructed(s) ==
    [s EXCEPT !._redirectUriOptions =
                  MergedOptions([response_type |-> s._redirectUriOptions.response_type])]

AfterResponse(s, i, e) ==
    IF i.pc # e.endpoint THEN i
    ELSE IF e.endpoint = "token" THEN AfterAccessToken(s, i, e.body)
    ELSE IF e.endpoint = "longLived" THEN AfterLongLivedToken(s, i, e.body)
    ELSE IF e.endpoint = "profile" THEN AfterUserProfile(s, i, e.body)
    ELSE AfterUserEmail(s, i, e.body)

RECURSIVE AfterResponses(_, _, _)
AfterResponses(s, i, rs) ==
    IF rs = <<>> THEN i
    ELSE AfterResponses(s, AfterResponse(s, i, Head(rs)), Tail(rs))

\* getUser run alone with the parameters of i and the answers i received.
Alone(s, i) ==
    AfterResponses(s,
        GetUserStart(s, [NewInvocation EXCEPT !.op = "getUser",
                                              !.queryParams = i.queryParams,
                                              !.originalState = i.originalState,
                                              !.attempt = i.attempt,
                                              !.prevResult = i.prevResult]),
        Responses(i))

C16_ConcurrentInvocationsIndependent ==
    \A i \in {inv, other} :
        i.op = "getUser" => i = Alone(AsConstructed(self), i)

\* Both invocations have returned a user, for two different callbacks whose
\* token and profile answers differ, on a driver whose redirect options a
\* getRedirectUrl('s2') call has written to.
C16_Witness ==
    /\ inv.pc = "done" /\ other.pc = "done"
    /\ inv.result.kind = "user" /\ other.result.kind = "user"
    /\ inv.queryParams.code # other.queryParams.code
    /\ inv.atr.accessToken # other.atr.accessToken
    /\ inv.userProfile # other.userProfile
    /\ inv.result # other.result
    /\ self._redirectUriOptions.state = "s2"

(***************************************************************************)
(* C17: the mapping never fails because optional data is missing.  When    *)
(* every call of getUser or getUserByToken succeeded and the profile       *)
(* carries an id, the invocation returns a user, whichever of the name     *)
(* parts, nickname, avatar, email resource or its elements are missing.    *)
(***************************************************************************)
\* The id the user is built with: the open_id of the token response for
\* TikTok, the id of the profile for LinkedIn and Threads.
MandatoryId(i) ==
    IF self.driver = "tiktok" THEN i.atr.open_id ELSE i.userProfile.id

\* The invocation is over, its profile fetch and every other call succeeded.
MappingReached(i) ==
    /\ i.op \in {"getUser", "getUserByToken"}
    /\ i.pc = "done"
    /\ i.userProfile.ok
    /\ \A k \in 1..Len(Responses(i)) : ~Failure(Responses(i)[k])

C17_MissingOptionalFieldNeverFails ==
    (MappingReached(inv) /\ Truthy(MandatoryId(inv)))
    => inv.result.kind = "user"

(***************************************************************************)
(* C18: when the profile response is otherwise successful but has no id,   *)
(* getUser and getUserByToken fail with ProfileMappingError and return no  *)
(* user with an unset id.                                                  *)
(***************************************************************************)
C18_MissingIdIsProfileMappingError ==
    (MappingReached(inv) /\ ~Truthy(MandatoryId(inv)))
    => /\ inv.result.kind = "error"
       /\ inv.result.name = "ProfileMappingError"

(***************************************************************************)
(* C19: in Threads getUser, when the long-lived token exchange fails       *)
(* (the call is rejected, or its body has no access token), getUser fails  *)
(* with the token exchange error and issues no profile fetch.              *)
(***************************************************************************)
C19_LongLivedFailureIsTokenExchangeError ==
    (/\ self.driver = "threads"
     /\ inv.op = "getUser"
     /\ \E k \in 1..Len(Responses(inv)) :
          /\ Responses(inv)[k].endpoint = "longLived"
          /\ Failure(Responses(inv)[k]))
    => /\ inv.pc = "done"
       /\ inv.result.kind = "error"
       /\ inv.result.name = "E_OAUTH_TOKEN_EXCHANGE"
       /\ \A k \in 1..Len(Endpoints(inv)) : Endpoints(inv)[k] # "profile"

(***************************************************************************)
(* C20: for every expiry time and every current time, shouldRefreshToken   *)
(* answers true exactly when now < expiresAt <= now + 24h; it answers      *)
(* false when the token has expired (expiresAt <= now) and when it is not  *)
(* yet due (expiresAt > now + 24h), both boundary values included.         *)
(***************************************************************************)
TwentyFourHours == 24 * 3600 * 1000

MostSpecificError(queryParams) ==
    OrElse(queryParams.error_description,
           OrElse(queryParams.error, "Oauth failed during redirect"))

C21_MessageIsMostSpecificErrorField ==
    (inv.op = "getUser" /\ inv.pc = "done" /\ ~Truthy(inv.queryParams.code))
    => /\ inv.result.kind = "error"
       /\ inv.result.message = MostSpecificError(inv.queryParams)
       /\ parseRedirectError(self.driver, inv.queryParams)
            = MostSpecificError(inv.queryParams)

(***************************************************************************)
(* C22: the LinkedIn mapping takes the email address from the element of   *)
(* the email resource flagged primary, not from the first element of type  *)
(* EMAIL, and each name part from the first localized variant.             *)
(***************************************************************************)
\* The address of the first EMAIL element flagged primary, if there is one.
PrimaryEmail(elements) ==
    LET idx == {k \in 1..Len(elements) :
                  elements[k].type = "EMAIL" /\ elements[k].primary}
    IN  IF idx = {} THEN Undefined
        ELSE elements[CHOOSE k \in idx : \A j \in idx : k <= j].emailAddress

C22_LinkedInPicksPrimaryEmail ==
    (/\ self.driver = "linkedin"
     /\ inv.op = "getUser"
     /\ inv.pc = "done"
     /\ inv.result.kind = "user")
    => LET email == inv.log[Len(inv.log)].body
       IN  /\ inv.result.fields[2] = FirstLocalized(inv.userProfile.firstName)
           /\ inv.result.fields[3] = FirstLocalized(inv.userProfile.lastName)
           /\ Truthy(PrimaryEmail(email.elements))
                => inv.result.fields[4] = PrimaryEmail(email.elements)

(***************************************************************************)
(* C23: getUser checks the code, then the state, then exchanges the code.  *)
(* A callback without a code whose state disagrees with originalState      *)
(* fails with the token exchange (missing code) error, not with the        *)
(* invalid state error; an invalid state error is only raised for a        *)
(* callback with a code; in both cases no outbound call has been issued.   *)
(***************************************************************************)
C23_CodeCheckedBeforeState ==
    (inv.op = "getUser" /\ inv.pc # "idle") =>
      /\ ~Truthy(inv.queryParams.code)
           => /\ inv.pc = "done"
              /\ inv.result.kind = "error"
              /\ inv.result.name = "E_OAUTH_TOKEN_EXCHANGE"
              /\ inv.result # invalidState
              /\ inv.log = <<>>
      /\ (inv.pc = "done" /\ inv.result = invalidState)
           => /\ Truthy(inv.queryParams.code)
              /\ StateMismatch(inv.queryParams.state, inv.originalState)
              /\ inv.log = <<>>
      /\ inv.log # <<>>
           => /\ Truthy(inv.queryParams.code)
              /\ ~StateMismatch(inv.queryParams.state, inv.originalState)
              /\ inv.log[1].req.endpoint = "token"

\* getUser was called without a code and with a state that disagrees with
\* originalState, and has failed with the missing-code error.
C23_Witness ==
    /\ inv.op = "getUser"
    /\ inv.pc = "done"
    /\ ~Truthy(inv.queryParams.code)
    /\ inv.queryParams.state = "s2"
    /\ inv.originalState = "s1"
    /\ inv.result.name = "E_OAUTH_TOKEN_EXCHANGE"
    /\ inv.log = <<>>

(***************************************************************************)
(* C24: a getRedirectUrl call made without a state hands getUrl options    *)
(* with no state parameter, whatever calls preceded it on the instance.    *)
(***************************************************************************)
C24_NoStateGivenNoStateSent ==
    (lastUrl # NoUrl /\ ~Truthy(lastState)) => ~Truthy(lastUrl.state)

(***************************************************************************)
(* C25: for every driver and every sequence of operations, the token       *)
(* exchange of getUser is sent with the configured redirect URI, the one   *)
(* getRedirectUrl put in the authorization redirect, with                  *)
(* grant_type = authorization_code and with the callback's code as it is.  *)
(***************************************************************************)
C25_TokenExchangeUsesConfiguredRedirectUri ==
    /\ lastUrl # NoUrl => lastUrl.redirect_uri = self._redirectUri
    /\ \E options \in ConfigOptions :
         self._redirectUri = Config(options).redirectUri
    /\ (inv.op = "getUser" /\ inv.log # <<>>)
         => LET request == inv.log[1].req
            IN  /\ request.endpoint = "token"
                /\ request.redirect_uri = self._redirectUri
                /\ lastUrl # NoUrl => request.redirect_uri = lastUrl.redirect_uri
                /\ request.grant_type = "authorization_code"
                /\ request.code = inv.queryParams.code
                /\ \A k \in 2..Len(Requests(inv)) :
                     Requests(inv)[k].req.endpoint # "token"

\* getUser has exchanged the code 'c1' and returned a user, on an instance
\* whose last getRedirectUrl call was made with the state 's2'.
C25_Witness ==
    /\ lastUrl # NoUrl
    /\ lastState = "s2"
    /\ self._redirectUriOptions.state = "s2"
    /\ inv.op = "getUser"
    /\ inv.pc = "done"
    /\ inv.result.kind = "user"
    /\ inv.log[1].req.redirect_uri = lastUrl.redirect_uri
    /\ inv.log[1].req.code = "c1"

(***************************************************************************)
(* C26: under one reading of the setFields argument order, the email slot  *)
(* of the user of every driver holds only the provider's email address or  *)
(* is unset, never another attribute of the profile.                       *)
(***************************************************************************)
\* What an email slot may hold: an address of the email resource, or nothing.
EmailValues ==
    {Undefined, Null} \cup
    UNION { { b.elements[k].emailAddress : k \in 1..Len(b.elements) } :
            b \in EmailBodies }

C26_OneEmailSlotForAllDrivers ==
    \E slot \in {3, 4} :
        /\ inv.result.kind = "user" => inv.result.fields[slot] \in EmailValues
        /\ \A d \in Drivers :
             \A userProfile \in ProfileBodies(d) :
                \A u \in GetUserMappings(d, userProfile) :
                    u.fields[slot] \in EmailValues

====
